---- MODULE Spec2Model ----
(***************************************************************************)
(* Model of the capability registration code of meshery-traefik-mesh:      *)
(*   traefik/oam/register.go  load, RegisterWorkLoadsDynamically,          *)
(*                            getLatestValidAppVersionAndChartVersion      *)
(*   main.go                  registerCapabilities,                        *)
(*                            registerDynamicCapabilities, registerWorkloads*)
(* Time is counted in minutes.                                             *)
(***************************************************************************)
EXTENDS Integers, Sequences, FiniteSets, TLC

\* ---------------------------------------------------------------- bounds
MaxBatch    == 3   \* longest comp.Definitions explored
MaxUpstream == 11  \* most releases the release list holds (SpecVer)
RegUpstream == 1   \* most releases the release list holds (SpecReg)
MaxRtt      == 1   \* longest duration of one http.Post, minutes
MaxWait     == 2   \* longest back-off pause, minutes (each pause >= 1)
NumCRDs     == 2   \* len(build.CRDNames)
MaxFailed   == 3   \* failed passes are counted up to this number

\* ------------------------------------------------------ program constants
MaxElapsedTime == 10   \* backoffOpt.MaxElapsedTime = 10 * time.Minute
NumReleases    == 10   \* config.GetLatestReleases(10)

VARIABLES
  \* the world RegisterWorkLoadsDynamically talks to
  upstream,     \* number of releases published; tag t is the t-th most recent
  chartIndex,   \* tags that have an entry in the chart index
  defs,         \* comp.Definitions as GetFromHelm yields them
  \* getLatestValidAppVersionAndChartVersion
  vpc, release, vi, vres,
  \* RegisterWorkLoadsDynamically
  rpc, idx, elapsed, lastResp, ret,
  \* observations of the HTTP traffic
  posts, acks, posted, registered,
  \* load: the directory tree and the walk over it
  tree,         \* entries that exist under the base path
  bad,          \* the entry the walk cannot read, 0 when there is none
  lpc, lpos, res, lerr,
  \* main.go: the process and its background tasks
  alive,        \* FALSE once the process has exited
  forceEnv,     \* os.Getenv("FORCE_DYNAMIC_REG")
  available,    \* oam.AvailableVersions[build.DefaultVersion]
  spc,          \* registerCapabilities: "run", "done"
  dpc,          \* registerDynamicCapabilities: where its goroutine stands
  ticker,       \* "none" before time.NewTicker, then "on"
  tickBuf,      \* ticks waiting in ticker.C (the channel holds one)
  crd,          \* index into build.CRDNames of the running pass
  inFlight,     \* calls of registerWorkloads started and not yet returned
  createCalls, created, regSent,   \* of the latest pass
  lastOutcome,  \* how the latest pass ended
  failedPasses, \* passes that ended in an error, counted up to MaxFailed
  staticRegs    \* registrations sent by registerCapabilities

verVars == <<upstream, chartIndex, vpc, release, vi, vres>>
regVars == <<defs, rpc, idx, elapsed, lastResp, ret, posts, acks, posted, registered>>
loadVars == <<tree, bad, lpc, lpos, res, lerr>>
mainVars == <<alive, forceEnv, available, spc, dpc, ticker, tickBuf, crd,
              inFlight, createCalls, created, regSent, lastOutcome,
              failedPasses, staticRegs>>
vars == <<verVars, regVars, loadVars, mainVars>>

Min(a, b) == IF a < b THEN a ELSE b

\* ================================================================ helpers
ItemKinds == {"valid", "malformed", "nomarshal"}
\* "valid":     json.Unmarshal and json.Marshal succeed
\* "malformed": json.Unmarshal([]byte(def), &definitionMap) fails
\* "nomarshal": json.Marshal(ord) fails inside the retried operation

Batches == UNION {[1..n -> ItemKinds] : n \in 0..MaxBatch}

StatusCodes == {200, 201, 202, 204, 500}
NoResp == [recv |-> FALSE, code |-> 0]
Outcomes == {NoResp} \cup {[recv |-> TRUE, code |-> c] : c \in StatusCodes}

NoErr == [kind |-> "nil", resp |-> NoResp]
Err(k, o) == [kind |-> k, resp |-> o]

\* resp.StatusCode is none of StatusCreated, StatusOK, StatusAccepted -> error
IsSuccessAny2xx(code) == code >= 200 /\ code < 300
IsSuccess(code) == ~(code # 201 /\ code # 200 /\ code # 202)

\* ExponentialBackOff.NextBackOff returns Stop when the time elapsed since
\* Reset is over MaxElapsedTime; Retry then returns the operation's error
BackOffStopEarly(e) == e >= MaxElapsedTime
BackOffStop(e) == e > MaxElapsedTime

\* for i, def := range comp.Definitions: the loop is over after the last item
LoopDoneOffByOne(i, d) == i >= Len(d)
LoopDone(i, d) == i > Len(d)

\* ======================= getLatestValidAppVersionAndChartVersion ========
\* config.GetLatestReleases(n): the n most recent releases, most recent first
GetLatestReleases(n) == [j \in 1..Min(n, upstream) |-> [TagName |-> j]]

\* kubernetes.HelmAppVersionToChartVersion(repo, "maesh", tag)
HasChart(tag) == tag \in chartIndex
ChartVersionOf(tag) == <<"chart", tag>>

NoVersion == [tag |-> 0, chart |-> <<>>, err |-> "none"]

\* release, err := config.GetLatestReleases(10); if err != nil return
VerFetch ==
  /\ vpc = "fetch"
  /\ \E ok \in BOOLEAN :
       IF ok
         THEN /\ release' = GetLatestReleases(NumReleases)
              /\ vi' = 1
              /\ vpc' = "loop"
              /\ vres' = vres
         ELSE /\ vres' = [tag |-> 0, chart |-> <<>>, err |-> "fetch"]
              /\ vpc' = "done"
              /\ UNCHANGED <<release, vi>>
  /\ UNCHANGED <<upstream, chartIndex, regVars, loadVars, mainVars>>

\* one iteration of: for _, rel := range release
VerTryLastMatch ==
  /\ vpc = "loop"
  /\ vi <= Len(release)
  /\ IF /\ HasChart(release[vi].TagName)
        /\ \A j \in (vi + 1)..Len(release) : ~HasChart(release[j].TagName)
       THEN /\ vres' = [tag |-> release[vi].TagName,
                        chart |-> ChartVersionOf(release[vi].TagName),
                        err |-> "nil"]
            /\ vpc' = "done"
            /\ vi' = vi
       ELSE /\ vi' = vi + 1
            /\ UNCHANGED <<vres, vpc>>
  /\ UNCHANGED release
  /\ UNCHANGED <<upstream, chartIndex, regVars, loadVars, mainVars>>

VerTry ==
  /\ vpc = "loop"
  /\ vi <= Len(release)
  /\ IF HasChart(release[vi].TagName)
       THEN /\ vres' = [tag |-> release[vi].TagName,
                        chart |-> ChartVersionOf(release[vi].TagName),
                        err |-> "nil"]
            /\ vpc' = "done"
            /\ vi' = vi
       ELSE /\ vi' = vi + 1
            /\ UNCHANGED <<vres, vpc>>
  /\ UNCHANGED release
  /\ UNCHANGED <<upstream, chartIndex, regVars, loadVars, mainVars>>

\* return "", "", errors.New("Could not find latest stable release")
VerNotFound ==
  /\ vpc = "loop"
  /\ vi > Len(release)
  /\ vres' = [tag |-> 0, chart |-> <<>>, err |-> "notfound"]
  /\ vpc' = "done"
  /\ UNCHANGED <<release, vi>>
  /\ UNCHANGED <<upstream, chartIndex, regVars, loadVars, mainVars>>


\* ============================== RegisterWorkLoadsDynamically ============
\* av, cv, err := getLatestValidAppVersionAndChartVersion()
RegStart ==
  /\ rpc = "start"
  /\ rpc' = "resolve"
  /\ vpc' = "fetch"
  /\ UNCHANGED <<upstream, chartIndex, release, vi, vres, loadVars, mainVars>>
  /\ UNCHANGED <<defs, idx, elapsed, lastResp, ret, posts, acks, posted, registered>>

\* if err != nil { return err }
RegResolved ==
  /\ rpc = "resolve"
  /\ vpc = "done"
  /\ IF vres.err # "nil"
       THEN /\ rpc' = "done"
            /\ ret' = Err("version", NoResp)
       ELSE /\ rpc' = "helm"
            /\ ret' = ret
  /\ vpc' = "idle"
  /\ UNCHANGED <<upstream, chartIndex, release, vi, vres, loadVars, mainVars>>
  /\ UNCHANGED <<defs, idx, elapsed, lastResp, posts, acks, posted, registered>>

\* comp, err := manifests.GetFromHelm(url, ...); if err != nil { return err }
RegHelm ==
  /\ rpc = "helm"
  /\ \E ok \in BOOLEAN :
       IF ok
         THEN /\ rpc' = "loop"
              /\ idx' = 1
              /\ ret' = ret
         ELSE /\ rpc' = "done"
              /\ ret' = Err("helm", NoResp)
              /\ idx' = idx
  /\ UNCHANGED <<verVars, loadVars, mainVars>>
  /\ UNCHANGED <<defs, elapsed, lastResp, posts, acks, posted, registered>>

\* the range loop is exhausted: return nil
RegLoopDone ==
  /\ rpc = "loop"
  /\ LoopDone(idx, defs)
  /\ rpc' = "done"
  /\ ret' = NoErr
  /\ UNCHANGED <<verVars, loadVars, mainVars>>
  /\ UNCHANGED <<defs, idx, elapsed, lastResp, posts, acks, posted, registered>>

\* json.Unmarshal fails: return err
RegUnmarshalFailSkip ==
  /\ rpc = "loop"
  /\ ~LoopDone(idx, defs)
  /\ defs[idx] = "malformed"
  /\ idx' = idx + 1
  /\ UNCHANGED <<verVars, loadVars, mainVars>>
  /\ UNCHANGED <<defs, rpc, ret, elapsed, lastResp, posts, acks, posted, registered>>

RegUnmarshalFail ==
  /\ rpc = "loop"
  /\ ~LoopDone(idx, defs)
  /\ defs[idx] = "malformed"
  /\ rpc' = "done"
  /\ ret' = Err("unmarshal", NoResp)
  /\ UNCHANGED <<verVars, loadVars, mainVars>>
  /\ UNCHANGED <<defs, idx, elapsed, lastResp, posts, acks, posted, registered>>

\* json.Unmarshal succeeds; backoff.Retry resets the back-off clock and
\* calls the operation for the first time
RegUnmarshalOk ==
  /\ rpc = "loop"
  /\ ~LoopDone(idx, defs)
  /\ defs[idx] # "malformed"
  /\ rpc' = "attempt"
  /\ elapsed' = 0
  /\ UNCHANGED <<verVars, loadVars, mainVars>>
  /\ UNCHANGED <<defs, idx, lastResp, ret, posts, acks, posted, registered>>

\* json.Marshal(ord) fails: backoff.Permanent(err), Retry returns at once
RegMarshalFail ==
  /\ rpc = "attempt"
  /\ defs[idx] = "nomarshal"
  /\ rpc' = "done"
  /\ ret' = Err("marshal", NoResp)
  /\ UNCHANGED <<verVars, loadVars, mainVars>>
  /\ UNCHANGED <<defs, idx, elapsed, lastResp, posts, acks, posted, registered>>

\* http.Post answered with 200, 201 or 202: the operation returns nil and
\* the range loop moves to the next definition
RegPostOk ==
  /\ rpc = "attempt"
  /\ defs[idx] = "valid"
  /\ \E d \in 0..MaxRtt, o \in Outcomes :
       /\ o.recv /\ IsSuccess(o.code)
       /\ elapsed' = elapsed + d
       /\ lastResp' = o
  /\ posts' = posts + 1
  /\ posted' = posted \cup {idx}
  /\ registered' = registered \cup {idx}
  /\ idx' = idx + 1
  /\ rpc' = "loop"
  /\ UNCHANGED <<verVars, loadVars, mainVars>>
  /\ UNCHANGED <<defs, ret>>
  /\ acks' = acks + 1

\* http.Post failed or was answered with another status, and NextBackOff
\* does not say Stop: Retry pauses and calls the operation again
RegPostRetry ==
  /\ rpc = "attempt"
  /\ defs[idx] = "valid"
  /\ \E d \in 0..MaxRtt, o \in Outcomes :
       /\ ~(o.recv /\ IsSuccess(o.code))
       /\ ~BackOffStop(elapsed + d)
       /\ elapsed' = elapsed + d
       /\ lastResp' = o
  /\ posts' = posts + 1
  /\ posted' = posted \cup {idx}
  /\ rpc' = "backoff"
  /\ UNCHANGED <<verVars, loadVars, mainVars>>
  /\ UNCHANGED <<defs, idx, ret, registered, acks>>

\* the same failure when NextBackOff says Stop: Retry returns the error of
\* this attempt and RegisterWorkLoadsDynamically returns it
RegPostGiveUpContinue ==
  /\ rpc = "attempt"
  /\ defs[idx] = "valid"
  /\ \E d \in 0..MaxRtt, o \in Outcomes :
       /\ ~(o.recv /\ IsSuccess(o.code))
       /\ BackOffStop(elapsed + d)
       /\ elapsed' = elapsed + d
       /\ lastResp' = o
  /\ posts' = posts + 1
  /\ posted' = posted \cup {idx}
  /\ idx' = idx + 1
  /\ rpc' = "loop"
  /\ UNCHANGED <<verVars, loadVars, mainVars>>
  /\ UNCHANGED <<defs, ret, registered, acks>>

RegPostGiveUp ==
  /\ rpc = "attempt"
  /\ defs[idx] = "valid"
  /\ \E d \in 0..MaxRtt, o \in Outcomes :
       /\ ~(o.recv /\ IsSuccess(o.code))
       /\ BackOffStop(elapsed + d)
       /\ elapsed' = elapsed + d
       /\ lastResp' = o
       /\ ret' = Err("post", o)
  /\ posts' = posts + 1
  /\ posted' = posted \cup {idx}
  /\ rpc' = "done"
  /\ UNCHANGED <<verVars, loadVars, mainVars>>
  /\ UNCHANGED <<defs, idx, registered, acks>>

\* the pause between two calls of the operation: NextBackOff's interval
RegBackoff ==
  /\ rpc = "backoff"
  /\ \E w \in 1..MaxWait : elapsed' = elapsed + w
  /\ rpc' = "attempt"
  /\ UNCHANGED <<verVars, loadVars, mainVars>>
  /\ UNCHANGED <<defs, idx, lastResp, ret, posts, acks, posted, registered>>

\* ================================================================== load
\* A path is a sequence of tokens; "/" is the separator.
Sep == "/"
DefSuffix    == <<"_", "definition", ".json">>      \* "_definition.json"
SchemaSuffix == <<".meshery.layer5io.schema.json">>
Root == <<"oam", Sep, "workloads">>

\* the entries a tree is made of, in the lexical order filepath.Walk visits
\* them; entry 1 is the base path itself
Entries == <<
  [path |-> Root, dir |-> TRUE, parent |-> 0],
  [path |-> Root \o <<Sep>> \o DefSuffix, dir |-> FALSE, parent |-> 1],
  [path |-> Root \o <<Sep, "d">> \o DefSuffix, dir |-> TRUE, parent |-> 1],
  [path |-> Root \o <<Sep, "d">> \o DefSuffix \o <<Sep, "foo">> \o DefSuffix,
     dir |-> FALSE, parent |-> 3],
  [path |-> Root \o <<Sep, "definition", ".json">>, dir |-> FALSE, parent |-> 1],
  [path |-> Root \o <<Sep, "foo">> \o SchemaSuffix, dir |-> FALSE, parent |-> 1],
  [path |-> Root \o <<Sep, "foo">> \o DefSuffix, dir |-> FALSE, parent |-> 1],
  [path |-> Root \o <<Sep, "foo">> \o DefSuffix \o <<".bak">>, dir |-> FALSE, parent |-> 1],
  [path |-> Root \o <<Sep, "sub">>, dir |-> TRUE, parent |-> 1],
  [path |-> Root \o <<Sep, "sub", Sep, "bar">> \o DefSuffix, dir |-> FALSE, parent |-> 9]
>>
EntryIds == 1..Len(Entries)
Trees == {t \in SUBSET EntryIds :
            /\ 1 \in t
            /\ \A e \in t : Entries[e].parent = 0 \/ Entries[e].parent \in t}

HasSuffix(str, sfx) ==
  /\ Len(str) >= Len(sfx)
  /\ SubSeq(str, Len(str) - Len(sfx) + 1, Len(str)) = sfx

\* strings.TrimSuffix
TrimSuffix(str, sfx) ==
  IF HasSuffix(str, sfx) THEN SubSeq(str, 1, Len(str) - Len(sfx)) ELSE str

RECURSIVE StripTrailingSep(_)
StripTrailingSep(str) ==
  IF Len(str) > 0 /\ str[Len(str)] = Sep
    THEN StripTrailingSep(SubSeq(str, 1, Len(str) - 1))
    ELSE str

RECURSIVE AfterLastSep(_)
AfterLastSep(str) ==
  IF \E k \in 1..Len(str) : str[k] = Sep
    THEN AfterLastSep(Tail(str))
    ELSE str

\* filepath.Base: trailing separators removed, then the last element;
\* "." for the empty path, the separator for a path of separators only
Base(str) ==
  IF Len(str) = 0 THEN <<".">>
  ELSE LET s == StripTrailingSep(str)
       IN IF Len(s) = 0 THEN <<Sep>> ELSE AfterLastSep(s)

\* filepath.Match("*_definition.json", name): the star takes any run of
\* non-separator characters, the rest is literal
MatchNoUnderscore(name) ==
  /\ HasSuffix(name, Tail(DefSuffix))
  /\ \A k \in 1..(Len(name) - Len(Tail(DefSuffix))) : name[k] # Sep
Match(name) ==
  /\ HasSuffix(name, DefSuffix)
  /\ \A k \in 1..(Len(name) - Len(DefSuffix)) : name[k] # Sep

\* the path set appended for a matched file
PathSet(path) ==
  LET nameWithPath == TrimSuffix(path, DefSuffix)
  IN [oamDefinitionPath |-> path,
      jsonSchemaPath    |-> nameWithPath \o SchemaSuffix,
      name              |-> Base(nameWithPath)]

\* the next entry of the tree the walk reaches from position p, 0 if none;
\* nothing below an unreadable directory is reached, the walk ends there
NextEntry(p) ==
  IF \E e \in tree : e >= p
    THEN CHOOSE e \in tree : e >= p /\ \A f \in tree : f >= p => e <= f
    ELSE 0

\* one call of the walk function: func(path, info, err)
LoadVisit ==
  /\ lpc = "walk"
  /\ NextEntry(lpos) # 0
  /\ LET e == NextEntry(lpos)
     IN IF e = bad
          THEN \* if err != nil { return err }: Walk stops, load returns nil, err
               /\ lerr' = TRUE
               /\ res' = <<>>
               /\ lpc' = "done"
               /\ lpos' = e
          ELSE /\ lerr' = lerr
               /\ lpc' = lpc
               /\ lpos' = e + 1
               /\ IF Entries[e].dir
                    THEN res' = res
                    ELSE IF Match(Base(Entries[e].path))
                           THEN res' = Append(res, PathSet(Entries[e].path))
                           ELSE res' = res
  /\ UNCHANGED <<tree, bad>>
  /\ UNCHANGED <<verVars, regVars, mainVars>>

\* the walk is over: return res, nil
LoadReturn ==
  /\ lpc = "walk"
  /\ NextEntry(lpos) = 0
  /\ lpc' = "done"
  /\ UNCHANGED <<tree, bad, lpos, res, lerr>>
  /\ UNCHANGED <<verVars, regVars, mainVars>>

\* ================================================================ main.go
PassStates == {"check", "create"}
Failed == {"createfailed", "regfailed"}

\* os.Getenv("FORCE_DYNAMIC_REG") != "true" && oam.AvailableVersions[version]
SkipWhenForced(env, avail) == env = "true" /\ avail
SkipDynamic(env, avail) == env # "true" /\ avail

\* where registerDynamicCapabilities goes on when registerWorkloads returns:
\* after the first pass it creates the ticker, later it waits on ticker.C
AfterPass == IF ticker = "none" THEN "newticker" ELSE "wait"

\* err = grpc.Start(service, nil); if err != nil { log.Error; os.Exit(1) }
ServerFail ==
  /\ alive
  /\ alive' = FALSE
  /\ UNCHANGED <<forceEnv, available, spc, dpc, ticker, tickBuf, crd, inFlight,
                 createCalls, created, regSent, lastOutcome, failedPasses,
                 staticRegs>>
  /\ UNCHANGED <<verVars, regVars, loadVars>>

\* go registerCapabilities: one RegisterMeshModelComponents, an error is logged
StaticRegister ==
  /\ alive
  /\ spc = "run"
  /\ \E ok \in BOOLEAN : spc' = IF ok THEN "done" ELSE "failed"
  /\ staticRegs' = staticRegs + 1
  /\ UNCHANGED <<alive, forceEnv, available, dpc, ticker, tickBuf, crd, inFlight,
                 createCalls, created, regSent, lastOutcome, failedPasses>>
  /\ UNCHANGED <<verVars, regVars, loadVars>>

\* registerDynamicCapabilities calls registerWorkloads: at process start ...
DynFirstPass ==
  /\ alive
  /\ dpc = "first"
  /\ dpc' = "check"
  /\ inFlight' = inFlight + 1
  /\ crd' = 1
  /\ createCalls' = 0 /\ created' = 0 /\ regSent' = 0
  /\ lastOutcome' = "running"
  /\ UNCHANGED <<alive, forceEnv, available, spc, ticker, tickBuf, failedPasses,
                 staticRegs>>
  /\ UNCHANGED <<verVars, regVars, loadVars>>

\* ticker := time.NewTicker(reRegisterAfter * time.Hour)
DynNewTicker ==
  /\ alive
  /\ dpc = "newticker"
  /\ ticker' = "on"
  /\ dpc' = "wait"
  /\ UNCHANGED <<alive, forceEnv, available, spc, tickBuf, crd, inFlight,
                 createCalls, created, regSent, lastOutcome, failedPasses,
                 staticRegs>>
  /\ UNCHANGED <<verVars, regVars, loadVars>>

\* the ticker fires: the tick is put into ticker.C, or dropped when the
\* channel still holds one
Tick ==
  /\ alive
  /\ ticker = "on"
  /\ tickBuf' = 1
  /\ UNCHANGED <<alive, forceEnv, available, spc, dpc, ticker, crd, inFlight,
                 createCalls, created, regSent, lastOutcome, failedPasses,
                 staticRegs>>
  /\ UNCHANGED <<verVars, regVars, loadVars>>

\* ... and in the loop: <-ticker.C; registerWorkloads(port, log)
DynWakeSpawn ==
  /\ alive
  /\ ticker = "on"
  /\ tickBuf = 1
  /\ tickBuf' = 0
  /\ inFlight' = inFlight + 1
  /\ IF dpc = "wait"
       THEN /\ dpc' = "check"
            /\ crd' = 1
            /\ createCalls' = 0 /\ created' = 0 /\ regSent' = 0
            /\ lastOutcome' = "running"
       ELSE UNCHANGED <<dpc, crd, createCalls, created, regSent, lastOutcome>>
  /\ UNCHANGED <<alive, forceEnv, available, spc, ticker, failedPasses, staticRegs>>
  /\ UNCHANGED <<verVars, regVars, loadVars>>

DynWake ==
  /\ alive
  /\ dpc = "wait"
  /\ tickBuf = 1
  /\ tickBuf' = 0
  /\ dpc' = "check"
  /\ inFlight' = inFlight + 1
  /\ crd' = 1
  /\ createCalls' = 0 /\ created' = 0 /\ regSent' = 0
  /\ lastOutcome' = "running"
  /\ UNCHANGED <<alive, forceEnv, available, spc, ticker, failedPasses, staticRegs>>
  /\ UNCHANGED <<verVars, regVars, loadVars>>

\* registerWorkloads: the precheck skips the pass
PassSkip ==
  /\ alive
  /\ dpc = "check"
  /\ SkipDynamic(forceEnv, available)
  /\ lastOutcome' = "skipped"
  /\ dpc' = AfterPass
  /\ inFlight' = inFlight - 1
  /\ UNCHANGED <<alive, forceEnv, available, spc, ticker, tickBuf, crd,
                 createCalls, created, regSent, failedPasses, staticRegs>>
  /\ UNCHANGED <<verVars, regVars, loadVars>>

\* registerWorkloads: the precheck lets the pass go on to the CRD loop
PassProceed ==
  /\ alive
  /\ dpc = "check"
  /\ ~SkipDynamic(forceEnv, available)
  /\ dpc' = "create"
  /\ UNCHANGED <<alive, forceEnv, available, spc, ticker, tickBuf, crd, inFlight,
                 createCalls, created, regSent, lastOutcome, failedPasses,
                 staticRegs>>
  /\ UNCHANGED <<verVars, regVars, loadVars>>

\* adapter.CreateComponents succeeds for build.CRDNames[crd]
PassCreateOk ==
  /\ alive
  /\ dpc = "create"
  /\ crd <= NumCRDs
  /\ createCalls' = createCalls + 1
  /\ created' = created + 1
  /\ crd' = crd + 1
  /\ UNCHANGED <<alive, forceEnv, available, spc, dpc, ticker, tickBuf, inFlight,
                 regSent, lastOutcome, failedPasses, staticRegs>>
  /\ UNCHANGED <<verVars, regVars, loadVars>>

\* adapter.CreateComponents fails: log.Info(err.Error()); return
PassCreateFailFatal ==
  /\ alive
  /\ dpc = "create"
  /\ crd <= NumCRDs
  /\ createCalls' = createCalls + 1
  /\ lastOutcome' = "createfailed"
  /\ failedPasses' = Min(failedPasses + 1, MaxFailed)
  /\ alive' = FALSE
  /\ UNCHANGED <<forceEnv, available, spc, dpc, ticker, tickBuf, crd, inFlight,
                 created, regSent, staticRegs>>
  /\ UNCHANGED <<verVars, regVars, loadVars>>

PassCreateFail ==
  /\ alive
  /\ dpc = "create"
  /\ crd <= NumCRDs
  /\ createCalls' = createCalls + 1
  /\ lastOutcome' = "createfailed"
  /\ failedPasses' = Min(failedPasses + 1, MaxFailed)
  /\ dpc' = AfterPass
  /\ inFlight' = inFlight - 1
  /\ UNCHANGED <<alive, forceEnv, available, spc, ticker, tickBuf, crd,
                 created, regSent, staticRegs>>
  /\ UNCHANGED <<verVars, regVars, loadVars>>

\* the CRD loop is over; oam.RegisterMeshModelComponents is called and its
\* error, if any, is logged; registerWorkloads returns either way
PassRegister ==
  /\ alive
  /\ dpc = "create"
  /\ crd > NumCRDs
  /\ regSent' = regSent + 1
  /\ \E ok \in BOOLEAN :
       IF ok
         THEN /\ lastOutcome' = "registered"
              /\ failedPasses' = failedPasses
         ELSE /\ lastOutcome' = "regfailed"
              /\ failedPasses' = Min(failedPasses + 1, MaxFailed)
  /\ dpc' = AfterPass
  /\ inFlight' = inFlight - 1
  /\ UNCHANGED <<alive, forceEnv, available, spc, ticker, tickBuf, crd,
                 createCalls, created, staticRegs>>
  /\ UNCHANGED <<verVars, regVars, loadVars>>

\* ========================================================= specifications
VerIdle ==
  /\ release = <<>>
  /\ vi = 1
  /\ vres = NoVersion

RegIdle ==
  /\ idx = 1
  /\ elapsed = 0
  /\ lastResp = NoResp
  /\ ret = [kind |-> "none", resp |-> NoResp]
  /\ posts = 0
  /\ acks = 0
  /\ posted = {}
  /\ registered = {}

LoadIdle ==
  /\ tree = {1}
  /\ bad = 0
  /\ lpc = "idle"
  /\ lpos = 1
  /\ res = <<>>
  /\ lerr = FALSE

MainIdle ==
  /\ alive = TRUE
  /\ forceEnv = ""
  /\ available = TRUE
  /\ spc = "idle"
  /\ dpc = "idle"
  /\ ticker = "none"
  /\ tickBuf = 0
  /\ crd = 1
  /\ inFlight = 0
  /\ createCalls = 0 /\ created = 0 /\ regSent = 0
  /\ lastOutcome = "none"
  /\ failedPasses = 0
  /\ staticRegs = 0

\* one call of getLatestValidAppVersionAndChartVersion
InitVer ==
  /\ upstream \in 0..MaxUpstream
  /\ chartIndex \in SUBSET (1..upstream)
  /\ vpc = "fetch"
  /\ VerIdle
  /\ defs = <<>>
  /\ rpc = "idle"
  /\ RegIdle
  /\ LoadIdle
  /\ MainIdle

NextVer == VerFetch \/ VerTry \/ VerNotFound
SpecVer == InitVer /\ [][NextVer]_vars

\* one call of RegisterWorkLoadsDynamically
InitReg ==
  /\ upstream \in 0..RegUpstream
  /\ chartIndex \in SUBSET (1..upstream)
  /\ vpc = "idle"
  /\ VerIdle
  /\ defs \in Batches
  /\ rpc = "start"
  /\ RegIdle
  /\ LoadIdle
  /\ MainIdle

NextReg ==
  \/ VerFetch \/ VerTry \/ VerNotFound
  \/ RegStart \/ RegResolved \/ RegHelm
  \/ RegLoopDone \/ RegUnmarshalFail \/ RegUnmarshalOk
  \/ RegMarshalFail \/ RegPostOk \/ RegPostRetry \/ RegPostGiveUp
  \/ RegBackoff
SpecReg == InitReg /\ [][NextReg]_vars

\* one call of load(workloadPath)
InitLoad ==
  /\ tree \in Trees
  /\ bad \in {0} \cup tree
  /\ lpc = "walk"
  /\ lpos = 1
  /\ res = <<>>
  /\ lerr = FALSE
  /\ upstream = 0
  /\ chartIndex = {}
  /\ vpc = "idle"
  /\ VerIdle
  /\ defs = <<>>
  /\ rpc = "idle"
  /\ RegIdle
  /\ MainIdle

NextLoad == LoadVisit \/ LoadReturn
SpecLoad == InitLoad /\ [][NextLoad]_vars

\* the process, from the point where main has started its two goroutines
InitMain ==
  /\ alive = TRUE
  /\ forceEnv \in {"", "true", "false"}
  /\ available \in BOOLEAN
  /\ spc = "run"
  /\ dpc = "first"
  /\ ticker = "none"
  /\ tickBuf = 0
  /\ crd = 1
  /\ inFlight = 0
  /\ createCalls = 0 /\ created = 0 /\ regSent = 0
  /\ lastOutcome = "none"
  /\ failedPasses = 0
  /\ staticRegs = 0
  /\ upstream = 0
  /\ chartIndex = {}
  /\ vpc = "idle"
  /\ VerIdle
  /\ defs = <<>>
  /\ rpc = "idle"
  /\ RegIdle
  /\ LoadIdle

DynStep ==
  \/ DynFirstPass \/ DynNewTicker \/ DynWake
  \/ PassSkip \/ PassProceed \/ PassCreateOk \/ PassCreateFail \/ PassRegister

NextMain == ServerFail \/ StaticRegister \/ Tick \/ DynStep
SpecMain == InitMain /\ [][NextMain]_vars

\* the ticker keeps firing and the goroutine of registerDynamicCapabilities
\* keeps being scheduled
FairSpecMain == SpecMain /\ WF_vars(Tick) /\ WF_vars(DynStep)

\* ================================================================= claims
Accepted(o) == o.recv /\ o.code \in {200, 201, 202}
BatchObtained == ret.kind \notin {"none", "version", "helm"}
FirstMalformed(m) ==
  /\ m \in 1..Len(defs)
  /\ defs[m] = "malformed"
  /\ \A j \in 1..(m - 1) : defs[j] # "malformed"

\* C1 (as amended): when RegisterWorkLoadsDynamically returns no error for a
\* batch of N definitions, exactly N POSTs were answered 200/201/202, one
\* per entry, and every further POST is a failed attempt that was retried,
\* so the total is at least N; a batch of size 0 issues no POST and the
\* call returns no error.
C1_OneAcceptedPostPerEntry ==
  /\ acks = Cardinality(registered)
  /\ posts >= acks
  /\ (rpc = "done" /\ ret.kind = "nil") =>
        /\ registered = 1..Len(defs)
        /\ acks = Len(defs)
        /\ posts >= Len(defs)
  /\ Len(defs) = 0 =>
        /\ posts = 0
        /\ (rpc = "done" /\ BatchObtained) => ret.kind = "nil"

C1_Witness ==
  /\ rpc = "done" /\ ret.kind = "nil"
  /\ Len(defs) = 2 /\ acks = 2 /\ posts = 3

\* C1 as stated: a batch of N definitions that registers sends exactly N
\* POST requests.
C1_Original ==
  (rpc = "done" /\ ret.kind = "nil") => posts = Len(defs)

\* C2 (as amended): a POST attempt that fails transiently while the elapsed
\* time is within the 10 minute ceiling is followed by a pause and another
\* attempt for the same entry; an attempt that fails with the elapsed time
\* over the ceiling is the last one, and the call returns that attempt's
\* error. (An attempt whose pause began within the ceiling may itself start
\* after the ceiling.)
C2_RetryUntilCeiling ==
  [][ /\ (posts' = posts + 1 /\ ~Accepted(lastResp')) =>
           IF elapsed' <= MaxElapsedTime
             THEN rpc' = "backoff" /\ idx' = idx /\ ret' = ret
             ELSE rpc' = "done" /\ ret' = Err("post", lastResp')
      /\ rpc = "backoff" => (rpc' = "attempt" /\ idx' = idx /\ defs[idx] = "valid")
      /\ rpc = "done" => posts' = posts
    ]_vars

C2_Witness ==
  /\ rpc = "done" /\ ret.kind = "post"
  /\ ret.resp = [recv |-> TRUE, code |-> 500]
  /\ posts >= 2 /\ elapsed > MaxElapsedTime

\* C2 as stated: once the ceiling is exceeded no further attempt is made.
C2_Original ==
  [][ posts' = posts + 1 => elapsed <= MaxElapsedTime ]_vars

\* C3 (as amended): when the batch holds a definition that cannot be
\* unmarshaled, no POST is ever issued for that item or for any item after
\* it, and once the items before it are registered the call returns the
\* unmarshal error without a retry; the items before it have been POSTed.
C3_NoPostFromMalformedOn ==
  \A m \in 1..Len(defs) : FirstMalformed(m) =>
     /\ posted \subseteq 1..(m - 1)
     /\ (rpc = "done" /\ BatchObtained /\ registered = 1..(m - 1)) =>
          /\ ret.kind = "unmarshal"
          /\ idx = m
          /\ posted = 1..(m - 1)

C3_Witness ==
  /\ rpc = "done" /\ ret.kind = "unmarshal"
  /\ idx = 2 /\ posted = {1} /\ posts >= 1

\* C3 as stated: a batch with a malformed item issues no POST at all,
\* whatever the position of the item.
C3_Original ==
  (\E k \in 1..Len(defs) : defs[k] = "malformed") => posts = 0

\* C4: version resolution returns the tag and chart version of the most
\* recent of the 10 latest releases that has a chart-index entry, and an
\* error when the release list cannot be fetched or none of the 10 resolves.
C4_FirstResolvingRelease ==
  vpc = "done" =>
    LET top  == 1..Min(10, upstream)
        cand == {t \in top : t \in chartIndex}
    IN \/ vres.err = "fetch" /\ vres.tag = 0 /\ vres.chart = <<>>
       \/ vres.err = "notfound" /\ cand = {} /\ vres.tag = 0 /\ vres.chart = <<>>
       \/ /\ vres.err = "nil"
          /\ vres.tag \in cand
          /\ \A t \in cand : vres.tag <= t
          /\ vres.chart = <<"chart", vres.tag>>

C4_Witness ==
  /\ vpc = "done" /\ vres.err = "nil"
  /\ vres.tag = 3
  /\ \E t \in chartIndex : t > vres.tag /\ t <= 10

\* C8: a POST attempt is a success exactly when a response arrived with
\* status 200, 201 or 202; any other status and any network error leaves
\* the entry unregistered and is retried (until the ceiling ends the call).
C8_SuccessIffAccepted ==
  [][ posts' = posts + 1 =>
        /\ (idx \in registered') <=> Accepted(lastResp')
        /\ Accepted(lastResp') => (rpc' = "loop" /\ idx' = idx + 1)
        /\ ~Accepted(lastResp') =>
             \/ rpc' = "backoff" /\ idx' = idx
             \/ rpc' = "done" /\ ret'.kind = "post" /\ elapsed' > MaxElapsedTime
    ]_vars

C8_Witness ==
  /\ rpc = "backoff"
  /\ lastResp = [recv |-> TRUE, code |-> 204]
  /\ idx \notin registered

\* C9: entries are registered strictly in order and the batch aborts on the
\* first failure: a POST for an entry is issued only after every earlier
\* entry was accepted; when entry i fails for good no POST is issued for a
\* later entry, and the entries before i stay registered.
C9_InOrderAbortOnFirstFailure ==
  /\ [](/\ \A k \in posted : \A j \in 1..(k - 1) : j \in registered
        /\ (rpc = "done" /\ ret.kind \in {"unmarshal", "marshal", "post"}) =>
              /\ idx \in 1..Len(defs)
              /\ posted \subseteq 1..idx
              /\ registered = 1..(idx - 1))
  /\ [][ /\ registered \subseteq registered'
         /\ rpc = "done" => (posts' = posts /\ posted' = posted)
       ]_vars

C9_Witness ==
  /\ rpc = "done" /\ ret.kind = "post"
  /\ Len(defs) = 3 /\ idx = 2 /\ defs[3] = "valid"
  /\ registered = {1} /\ posted = {1, 2}
\* C7: for a tree with N non-directory files named *_definition.json, load
\* returns exactly N path sets, one per such file, whose schema path is the
\* definition path with _definition.json replaced by
\* .meshery.layer5io.schema.json; other files and directories yield none.
\* (When the walk hits an unreadable entry load returns the error and no
\* path set.)
DefinitionFiles == {2, 4, 7, 10}
ExpectedSchemaPath(e) ==
  CASE e = 2  -> <<"oam", "/", "workloads", "/", ".meshery.layer5io.schema.json">>
    [] e = 4  -> <<"oam", "/", "workloads", "/", "d", "_", "definition", ".json",
                   "/", "foo", ".meshery.layer5io.schema.json">>
    [] e = 7  -> <<"oam", "/", "workloads", "/", "foo", ".meshery.layer5io.schema.json">>
    [] e = 10 -> <<"oam", "/", "workloads", "/", "sub", "/", "bar",
                   ".meshery.layer5io.schema.json">>

C7_OnePathSetPerDefinitionFile ==
  lpc = "done" =>
    IF lerr THEN res = <<>> /\ bad \in tree
    ELSE LET found == tree \cap DefinitionFiles
         IN /\ Len(res) = Cardinality(found)
            /\ \A e \in found :
                 Cardinality({k \in 1..Len(res) :
                                res[k].oamDefinitionPath = Entries[e].path}) = 1
            /\ \A k \in 1..Len(res) : \E e \in found :
                 /\ res[k].oamDefinitionPath = Entries[e].path
                 /\ res[k].jsonSchemaPath = ExpectedSchemaPath(e)
            /\ \A k, l \in 1..Len(res) :
                 res[k].jsonSchemaPath = res[l].jsonSchemaPath => k = l

C7_Witness ==
  /\ lpc = "done" /\ ~lerr
  /\ tree = EntryIds
  /\ Len(res) = 4
\* C5 (as amended): the periodic trigger runs its passes one after another
\* in one loop: when the timer fires while a pass is registering, the tick
\* waits in the ticker's channel (at most one) and the next pass starts only
\* after the running pass has returned, so two passes of the trigger are
\* never in progress at the same time.
C5_NoOverlappingPasses ==
  /\ inFlight <= 1
  /\ (inFlight = 1) <=> (dpc \in PassStates)
  /\ tickBuf \in {0, 1}

C5_Witness ==
  /\ alive /\ dpc = "create" /\ inFlight = 1
  /\ tickBuf = 1

\* C5 as stated: when the timer fires while a pass is still registering,
\* another pass of the trigger starts.
C5_Original ==
  [][ (tickBuf = 0 /\ tickBuf' = 1 /\ inFlight >= 1) => inFlight' = inFlight + 1 ]_vars

\* C6: a failed registration pass (and a failed static registration) never
\* ends the process or the periodic loop: the pass stops, the goroutine goes
\* back to creating or waiting on the ticker, and a waiting tick starts a
\* new pass, after any number of failed passes.
C6_FailureIsLocal ==
  /\ [][ /\ (dpc \in PassStates /\ lastOutcome' \in Failed /\ lastOutcome = "running") =>
              /\ alive' = alive
              /\ dpc' = IF ticker = "none" THEN "newticker" ELSE "wait"
              /\ inFlight' = 0
         /\ (spc = "run" /\ spc' = "failed") => (alive' = alive /\ dpc' = dpc)
       ]_vars
  /\ (alive /\ dpc = "wait" /\ lastOutcome \in Failed) ~> (dpc = "check" \/ ~alive)

C6_Witness ==
  /\ alive /\ dpc = "check" /\ ticker = "on"
  /\ failedPasses = 3
  /\ spc = "failed"

\* C10: a pass of registerWorkloads creates no components and sends no
\* registration when FORCE_DYNAMIC_REG is not "true" and the default version
\* is available statically; otherwise the registration is sent only after
\* component creation succeeded for every CRD name, and a creation failure
\* ends the pass without a registration.
C10_SkipOrCreateAllThenRegister ==
  /\ (forceEnv # "true" /\ available) =>
        /\ createCalls = 0 /\ created = 0 /\ regSent = 0
        /\ lastOutcome \in {"none", "running", "skipped"}
  /\ ~(forceEnv # "true" /\ available) => lastOutcome # "skipped"
  /\ regSent <= 1
  /\ regSent = 1 => (created = NumCRDs /\ createCalls = NumCRDs)
  /\ lastOutcome = "createfailed" => (regSent = 0 /\ created < NumCRDs)
  /\ lastOutcome \in {"registered", "regfailed"} => regSent = 1

C10_Witness ==
  /\ ticker = "on" /\ dpc = "wait"
  /\ lastOutcome = "createfailed"
  /\ created = 1 /\ createCalls = 2 /\ regSent = 0
====
